---- MODULE Spec2Model ----
(***************************************************************************)
(* A model of sudoku-solver.py: the SudokuCSP engine (constraint graph,    *)
(* consistency checks, arc-consistency domain reduction, MRV/LCV           *)
(* heuristics, min-conflicts repair) and the search drivers built on it.   *)
(*                                                                         *)
(* A board is a function from cells <<row, col>> (0-based, as in the       *)
(* source) to a value: Unassigned (-1) or a digit of 1..n.                 *)
(***************************************************************************)
EXTENDS Integers, Sequences, FiniteSets

VARIABLES
    n, m, k,          \* self.n, self.m, self.k
    initialBoard,     \* the puzzle as parsed (csp.initialBoard is a copy of it)
    board,            \* the board the drivers mutate in place
    checks,           \* self.checks
    reducedDomains,   \* self.reducedDomains; <<>> models None
    arcs,             \* the worklist of computeReducedDomains
    altDomains,       \* a second run of the worklist algorithm: its domains
    altArcs,          \*   and its worklist
    stack,            \* the frames of the recursive search
    driver,           \* which search driver is running (0: none)
    results,          \* what each finished driver returned
    iter,             \* the loop variable i of minConflict
    outcome,          \* how the minConflict loop ended
    prev,             \* the result of an earlier minConflict solve of the puzzle
    pc,               \* the position in the running entry point
    result            \* the value returned

vars == <<n, m, k, initialBoard, board, checks, reducedDomains, arcs, altDomains,
          altArcs, stack, driver, results, iter, outcome, prev, pc, result>>

(***************************************************************************)
(* Bounds of the model.                                                    *)
(***************************************************************************)
\* 4x4 boards given to checkAll differ from a base grid in at most this many cells
MaxPerturbed == 2

\* the puzzles given to minConflict have at most this many open cells
MaxOpenRepair == 1

\* the 3x3 puzzles given to computeReducedDomains have at most this many open cells
MaxOpenReduce == 1

\* the puzzles given to the search drivers are grids with at most this many cells
\* left open (and a few named puzzles)
MaxOpenSearch == 3

(***************************************************************************)
(* Constants of the program.                                               *)
(***************************************************************************)
Unassigned == -1

\* minConflict: "for i in range(5000)"
MaxIterations == 5000

(***************************************************************************)
(* The engine's configuration and the boards.                              *)
(***************************************************************************)
CellsOf(nn) == (0..(nn-1)) \X (0..(nn-1))

Cells == CellsOf(n)

\* self.domain = set(range(1, self.n+1))
getDomain == 1..n

\* parseInput: rows of digits, '-' read as -1
BoardOf(rows) == [c \in CellsOf(Len(rows)) |-> rows[c[1]+1][c[2]+1]]

\* parseInput rejects n, m, k unless n % m == 0 and n % k == 0
ValidParams(nn, mm, kk) == nn % mm = 0 /\ nn % kk = 0

\* range(0, stop, step)
range(stop, step) == {x \in 0..(stop-1) : x % step = 0}

(***************************************************************************)
(* The constraint graph.                                                   *)
(***************************************************************************)
getNeighbours(i, j) ==
    LET sb_i == (i \div m) * m
        sb_j == (j \div k) * k
    IN  ( {<<i, x>> : x \in 0..(n-1)}
          \cup {<<x, j>> : x \in 0..(n-1)}
          \cup {<<si, sj>> : si \in sb_i..(sb_i+m-1), sj \in sb_j..(sb_j+k-1)} )
        \ {<<i, j>>}

(***************************************************************************)
(* Consistency checking.                                                   *)
(***************************************************************************)
\* the digits of row i, of column i, and of the sub-grid with origin (i, j),
\* in the order checkAll reads them
Row(b, i) == [x \in 1..n |-> b[<<i, x-1>>]]

Column(b, i) == [x \in 1..n |-> b[<<x-1, i>>]]

SubGrid(b, i, j) == [x \in 1..(m*k) |-> b[<<i + ((x-1) \div k), j + ((x-1) % k)>>]]

\* "if digit in appeared: return False" is reached while reading s
HasRepeat(s) == \E a, c \in DOMAIN s : a < c /\ s[a] = s[c]

\* a variant of checkIncrement that ignores incrCheckCount
checkIncrementAlways(incrCheckCount) == 1

\* the effect of check's parameter incrCheckCount on self.checks
checkIncrement(incrCheckCount) == IF incrCheckCount THEN 1 ELSE 0

\* a variant of check that looks at the row of the cell only
checkRowOnly(b, i, j) ==
    LET appeared == {b[<<i, x>>] : x \in (0..(n-1)) \ {j}}
    IN  b[<<i, j>>] \notin appeared

\* the value check returns
check(b, i, j) ==
    LET appeared == {b[c] : c \in getNeighbours(i, j)}
    IN  b[<<i, j>>] \notin appeared

\* a variant of checkAll without the column test
checkAllNoColumns(b) ==
    /\ \A i \in 0..(n-1) : ~HasRepeat(Row(b, i))
    /\ \A i \in range(n, m), j \in range(n, k) : ~HasRepeat(SubGrid(b, i, j))

\* checkAll: no row, column or sub-grid makes it return False
checkAll(b) ==
    /\ \A i \in 0..(n-1) : ~HasRepeat(Row(b, i)) /\ ~HasRepeat(Column(b, i))
    /\ \A i \in range(n, m), j \in range(n, k) : ~HasRepeat(SubGrid(b, i, j))

(***************************************************************************)
(* Legal values and the MRV / LCV heuristics.                              *)
(***************************************************************************)
getUnassignedNeighbours(b, i, j) == {c \in getNeighbours(i, j) : b[c] = Unassigned}

\* "self.reducedDomains[i][j] if self.reducedDomains else self.domain", minus
\* the values of the neighbours
getLegalValues(b, i, j) ==
    LET appeared == {b[c] : c \in getNeighbours(i, j)}
        legalValues == IF DOMAIN reducedDomains # {} THEN reducedDomains[<<i, j>>]
                       ELSE getDomain
    IN  legalValues \ appeared

checkNeighboursConsistent(b, pos_i, pos_j) ==
    \A c \in getUnassignedNeighbours(b, pos_i, pos_j) : getLegalValues(b, c[1], c[2]) # {}

\* isSatisfiable of an engine built over ib (<<>>: built without an initial board)
isSatisfiable(ib) ==
    IF DOMAIN ib = {} THEN FALSE
    ELSE \A c \in Cells : ib[c] # Unassigned => check(ib, c[1], c[2])

NoCell == <<-1, -1>>

\* getFirstOpenCell: the scan from cell number idx on
RECURSIVE firstOpenScan(_, _)
firstOpenScan(b, idx) ==
    IF idx >= n * n THEN NoCell
    ELSE IF b[<<idx \div n, idx % n>>] = Unassigned THEN <<idx \div n, idx % n>>
    ELSE firstOpenScan(b, idx + 1)

getFirstOpenCell(b) == firstOpenScan(b, 0)

\* getOpenCellMRV: the scan from cell number idx on, with the running minimum
RECURSIVE mrvScan(_, _, _, _)
mrvScan(b, idx, mostRestrainedSize, mostRestrainedCell) ==
    IF idx >= n * n THEN mostRestrainedCell
    ELSE LET c == <<idx \div n, idx % n>>
             size == Cardinality(getLegalValues(b, c[1], c[2]))
         IN  IF b[c] = Unassigned /\ size < mostRestrainedSize
             THEN mrvScan(b, idx + 1, size, c)
             ELSE mrvScan(b, idx + 1, mostRestrainedSize, mostRestrainedCell)

getOpenCellMRV(b) == mrvScan(b, 0, n + 1, NoCell)

\* getLCVList: sizeNeighboursDomain of a value, summed over the cells of S
RECURSIVE sizeNeighboursDomain(_, _, _)
sizeNeighboursDomain(b, S, value) ==
    IF S = {} THEN 0
    ELSE LET c == CHOOSE c \in S : TRUE
         IN  Cardinality(getLegalValues(b, c[1], c[2]) \ {value})
             + sizeNeighboursDomain(b, S \ {c}, value)

\* a variant of sortedReverse without reverse=True
RECURSIVE sortedAscending(_)
sortedAscending(pairs) ==
    IF pairs = {} THEN <<>>
    ELSE LET low == CHOOSE p \in pairs : \A q \in pairs :
                        p[1] < q[1] \/ (p[1] = q[1] /\ p[2] <= q[2])
         IN  <<low[2]>> \o sortedAscending(pairs \ {low})

\* "lcvValues.sort(reverse=True)" on (size, value) pairs, then the values
RECURSIVE sortedReverse(_)
sortedReverse(pairs) ==
    IF pairs = {} THEN <<>>
    ELSE LET top == CHOOSE p \in pairs : \A q \in pairs :
                        p[1] > q[1] \/ (p[1] = q[1] /\ p[2] >= q[2])
         IN  <<top[2]>> \o sortedReverse(pairs \ {top})

getLCVList(b, pos_i, pos_j) ==
    LET legalValues == getLegalValues(b, pos_i, pos_j)
        neighbours == getUnassignedNeighbours(b, pos_i, pos_j)
    IN  sortedReverse({<<sizeNeighboursDomain(b, neighbours, value), value>> :
                           value \in legalValues})

\* "for value in csp.getDomain()": the values 1..n in ascending order
domainList == [v \in 1..n |-> v]

(***************************************************************************)
(* Idle values of the parts of the state a specification does not use.     *)
(***************************************************************************)
IdleDomains == reducedDomains = <<>> /\ arcs = <<>> /\ altDomains = <<>> /\ altArcs = <<>>

IdleSearch == stack = <<>> /\ driver = 0 /\ results = <<>>

\* no earlier solve
NoResult == [board |-> <<>>, checks |-> 0]

IdleRepair == iter = 0 /\ outcome = "none" /\ prev = NoResult

(***************************************************************************)
(* SpecCheckAll: checkAll applied to completely filled boards.             *)
(***************************************************************************)
\* every (n, m, k) with n in {2, 3} that parseInput accepts
SmallParams == {p \in (2..3) \X (1..3) \X (1..3) : ValidParams(p[1], p[2], p[3])}

\* some (n, m, k) with n = 4 that parseInput accepts
LargeParams == {<<4, 2, 2>>, <<4, 1, 4>>, <<4, 2, 1>>, <<4, 2, 4>>}

\* a valid 4x4 grid for 2x2 sub-grids, and a Latin square whose 2x2 sub-grids hold
\* values twice
BaseGrids ==
    { BoardOf(<< <<1,2,3,4>>, <<3,4,1,2>>, <<2,1,4,3>>, <<4,3,2,1>> >>),
      BoardOf(<< <<1,2,3,4>>, <<2,3,4,1>>, <<3,4,1,2>>, <<4,1,2,3>> >>) }

\* the subsets of S with at most d elements
SmallSubsets(S, d) == {T \in SUBSET S : Cardinality(T) <= d}

\* b with the cells of f given the values of f
Override(b, f) == [c \in DOMAIN b |-> IF c \in DOMAIN f THEN f[c] ELSE b[c]]

\* the boards that differ from b in at most d cells
Perturbed(b, d) ==
    UNION { {Override(b, f) : f \in [S -> 1..4]} : S \in SmallSubsets(DOMAIN b, d) }

\* every full board for n < 4; for n = 4 the base grids changed in a few cells
InitCheckAll ==
    /\ \E p \in SmallParams \cup LargeParams : n = p[1] /\ m = p[2] /\ k = p[3]
    /\ IF n < 4
       THEN board \in [Cells -> 1..n]
       ELSE \E b \in BaseGrids : \E S \in SmallSubsets(Cells, MaxPerturbed) :
                \E f \in [S -> 1..n] : board = Override(b, f)
    /\ initialBoard = board
    /\ checks = 0
    /\ pc = "checkAll"
    /\ result = "none"
    /\ IdleDomains /\ IdleSearch /\ IdleRepair

CallCheckAll ==
    /\ pc = "checkAll"
    /\ checks' = checks + 1
    /\ result' = checkAll(board)
    /\ pc' = "checked"
    /\ UNCHANGED <<n, m, k, initialBoard, board, reducedDomains, arcs, altDomains,
                   altArcs, stack, driver, results, iter, outcome, prev>>

NextCheckAll == CallCheckAll

SpecCheckAll == InitCheckAll /\ [][NextCheckAll]_vars

\* the cells of row i, of column j, and of the sub-grid with origin (i, j)
RowCells(i) == {<<i, x>> : x \in 0..(n-1)}

ColumnCells(j) == {<<x, j>> : x \in 0..(n-1)}

SubGridCells(i, j) == {<<si, sj>> : si \in i..(i+m-1), sj \in j..(j+k-1)}

Units == {RowCells(i) : i \in 0..(n-1)} \cup {ColumnCells(j) : j \in 0..(n-1)}

SubGridUnits == {SubGridCells(i, j) : i \in range(n, m), j \in range(n, k)}

\* the cells of U hold each of 1..n exactly once
IsPermutation(b, U) == Cardinality(U) = n /\ {b[c] : c \in U} = 1..n

NoDuplicate(b, U) == \A c, d \in U : c # d => b[c] # b[d]

\* C7 as stated: checkAll returns true iff every row, every column and every
\* m x k sub-grid is a permutation of 1..n.
C7_AsStated ==
    pc = "checked" =>
        (result <=> \A U \in Units \cup SubGridUnits : IsPermutation(board, U))

\* C7 (amended): checkAll returns true iff every row and every column is a
\* permutation of 1..n and no m x k sub-grid holds a value twice.
C7_CheckAllIffNoDuplicates ==
    pc = "checked" =>
        (result <=> /\ \A U \in Units : IsPermutation(board, U)
                    /\ \A U \in SubGridUnits : NoDuplicate(board, U))

\* checkAll has accepted a 4x4 board with 2x2 sub-grids
C7_Witness == pc = "checked" /\ result = TRUE /\ n = 4 /\ m = 2 /\ k = 2

(***************************************************************************)
(* Min-conflicts repair.                                                   *)
(***************************************************************************)
\* randomInitializeBoard: every open cell gets some random.randint(1, n)
randomInitializeBoard(b) ==
    LET open == {c \in Cells : b[c] = Unassigned}
    IN  {[c \in Cells |-> IF c \in open THEN f[c] ELSE b[c]] : f \in [open -> getDomain]}

\* a variant of conflictingCells without the initialBoard test
conflictingCellsAnyCell(b) == {c \in Cells : ~check(b, c[1], c[2])}

\* swapMinConflicts: the cells it collects in conflictingCells
conflictingCells(b) ==
    {c \in Cells : initialBoard[c] = Unassigned /\ ~check(b, c[1], c[2])}

\* neighbourValues.count(value) for the selected cell c
countConflicts(b, c, value) ==
    Cardinality({d \in getNeighbours(c[1], c[2]) : b[d] = value})

\* swapMinConflicts: "for value in self.domain", from value on, with the running minimum
RECURSIVE minConflictScan(_, _, _, _, _)
minConflictScan(b, c, value, minConflicts, minConflictValue) ==
    IF value > n THEN minConflictValue
    ELSE LET conflicts == countConflicts(b, c, value)
         IN  IF conflicts < minConflicts
             THEN minConflictScan(b, c, value + 1, conflicts, value)
             ELSE minConflictScan(b, c, value + 1, minConflicts, minConflictValue)

minConflictValueOf(b, c) == minConflictScan(b, c, 1, n * n, -1)

\* b with at most d of its cells left open
Blanked(b, d) ==
    {Override(b, [c \in S |-> Unassigned]) : S \in SmallSubsets(DOMAIN b, d)}

OpenCells(b) == {c \in DOMAIN b : b[c] = Unassigned}

SolvedGrid == BoardOf(<< <<1,2,3,4>>, <<3,4,1,2>>, <<2,1,4,3>>, <<4,3,2,1>> >>)

\* the puzzles given to minConflict: 2x2 puzzles with few open cells, two 2x2
\* puzzles with a whole row open and, for 4x4, the solved grid with one cell left
\* open or with one given changed
RepairPuzzles(nn) ==
    IF nn = 2
    THEN {b \in [CellsOf(2) -> {Unassigned} \cup (1..2)] :
              Cardinality(OpenCells(b)) <= MaxOpenRepair}
         \cup {BoardOf(<< <<1, 2>>, <<-1, -1>> >>), BoardOf(<< <<1, 1>>, <<-1, -1>> >>)}
    ELSE Blanked(SolvedGrid, 1) \cup Perturbed(SolvedGrid, 1)

InitRepair ==
    /\ \E p \in {<<2, 1, 2>>, <<4, 2, 2>>} : n = p[1] /\ m = p[2] /\ k = p[3]
    /\ initialBoard \in RepairPuzzles(n)
    /\ board = initialBoard
    /\ checks = 0
    /\ pc = "minConflict"
    /\ result = "none"
    /\ IdleDomains /\ IdleSearch /\ IdleRepair

\* minConflict, lines 466-469: a new SudokuCSP over the puzzle, then randomInitializeBoard
RandomInitialize ==
    /\ pc = "minConflict"
    /\ board' \in randomInitializeBoard(board)
    /\ checks' = 0
    /\ iter' = 0
    /\ pc' = "loop"
    /\ UNCHANGED <<n, m, k, initialBoard, reducedDomains, arcs, altDomains, altArcs,
                   stack, driver, results, outcome, prev, result>>

\* "for i in range(5000): if csp.checkAll(board): break"
LoopTest ==
    /\ pc = "loop"
    /\ IF iter >= MaxIterations
       THEN outcome' = "exhausted" /\ pc' = "return" /\ checks' = checks
       ELSE /\ checks' = checks + 1
            /\ IF checkAll(board)
               THEN outcome' = "solved" /\ pc' = "return"
               ELSE outcome' = outcome /\ pc' = "swap"
    /\ UNCHANGED <<n, m, k, initialBoard, board, reducedDomains, arcs, altDomains,
                   altArcs, stack, driver, results, iter, prev, result>>

\* csp.swapMinConflicts(board); random.choice raises IndexError on an empty list
SwapMinConflicts ==
    /\ pc = "swap"
    /\ checks' = checks + Cardinality({c \in Cells : initialBoard[c] = Unassigned})
                          * checkIncrement(FALSE)
    /\ IF conflictingCells(board) = {}
       THEN pc' = "IndexError" /\ UNCHANGED <<board, iter>>
       ELSE \E selected \in conflictingCells(board) :
                /\ board' = [board EXCEPT ![selected] = minConflictValueOf(board, selected)]
                /\ iter' = iter + 1
                /\ pc' = "loop"
    /\ UNCHANGED <<n, m, k, initialBoard, reducedDomains, arcs, altDomains, altArcs,
                   stack, driver, results, outcome, prev, result>>

\* "return (board, csp.getChecks())"
ReturnRepair ==
    /\ pc = "return"
    /\ result' = [board |-> board, checks |-> checks]
    /\ pc' = "returned"
    /\ UNCHANGED <<n, m, k, initialBoard, board, checks, reducedDomains, arcs,
                   altDomains, altArcs, stack, driver, results, iter, outcome, prev>>

\* the caller solves the same puzzle again after a run that used up its iterations
RetryRepair ==
    /\ pc = "returned"
    /\ outcome = "exhausted"
    /\ prev = NoResult
    /\ prev' = result
    /\ board' = initialBoard
    /\ outcome' = "none"
    /\ pc' = "minConflict"
    /\ UNCHANGED <<n, m, k, initialBoard, checks, reducedDomains, arcs, altDomains,
                   altArcs, stack, driver, results, iter, result>>

NextRepair == RandomInitialize \/ LoopTest \/ SwapMinConflicts \/ ReturnRepair

SpecRepair == InitRepair /\ [][NextRepair]_vars

SpecRepairTwice == InitRepair /\ [][NextRepair \/ RetryRepair]_vars

\* C8 as stated: in every iteration in which checkAll returned false,
\* swapMinConflicts collects at least one conflicting cell that was open in the
\* initial board, so random.choice never gets an empty list.
C8_AsStated == pc = "swap" => conflictingCells(board) # {}

\* C9: throughout a min-conflicts solve every given cell keeps its given value,
\* and once the board is randomly initialised every cell holds a value of 1..n.
C9_GivensKeptBoardFull ==
    /\ \A c \in Cells : initialBoard[c] # Unassigned => board[c] = initialBoard[c]
    /\ pc # "minConflict" => \A c \in Cells : board[c] \in 1..n

\* swapMinConflicts has acted at least twice on a puzzle with givens and open cells
C9_Witness ==
    /\ pc = "loop" /\ iter >= 2
    /\ \E c, d \in Cells : initialBoard[c] # Unassigned /\ initialBoard[d] = Unassigned

\* C10: the check counter goes up by exactly one per loop iteration (with the
\* checkAll call; swapMinConflicts leaves it alone), the loop runs at most 5000
\* iterations, and the count returned is between 1 and 5000.
C10_ChecksCountIterations ==
    /\ iter \in 0..MaxIterations
    /\ pc = "loop" => checks = iter
    /\ pc \in {"swap", "IndexError"} => checks = iter + 1
    /\ (pc \in {"return", "returned"} /\ outcome = "solved") => checks = iter + 1
    /\ (pc \in {"return", "returned"} /\ outcome = "exhausted") =>
           checks = iter /\ iter = MaxIterations
    /\ pc = "returned" => result.checks = checks /\ result.checks \in 1..MaxIterations

\* a solve has returned after using up its 5000 iterations
C10_Witness == pc = "returned" /\ outcome = "exhausted" /\ result.checks = MaxIterations

\* C4 as stated (its min-conflicts half): a run that used up its 5000 iterations
\* without checkAll returning true returns a result that differs from the result
\* of any run of the same puzzle that stopped because checkAll returned true.
C4_AsStated ==
    (pc = "returned" /\ outcome = "solved" /\ prev.checks > 0) => result # prev

(***************************************************************************)
(* Arc consistency: computeReducedDomains.                                 *)
(***************************************************************************)
\* the cells of S as a list; the source iterates a Python set of tuples, the
\* model lists it in row-major order
RECURSIVE cellList(_)
cellList(S) ==
    IF S = {} THEN <<>>
    ELSE LET c == CHOOSE c \in S : \A d \in S : c[1] * n + c[2] <= d[1] * n + d[2]
         IN  <<c>> \o cellList(S \ {c})

\* "for neighbour in self.getNeighbours(x): arcs.append((x, neighbour))"
arcsFrom(x) ==
    LET neighbours == cellList(getNeighbours(x[1], x[2]))
    IN  [t \in 1..Len(neighbours) |-> <<x, neighbours[t]>>]

\* lines 165-176: the domains before the worklist loop
initialDomains ==
    [c \in Cells |-> IF initialBoard[c] = Unassigned THEN getDomain ELSE {initialBoard[c]}]

\* lines 170-174: the arcs of the open cells, cell by cell in row-major order
RECURSIVE initialArcs(_)
initialArcs(idx) ==
    IF idx >= n * n THEN <<>>
    ELSE LET c == <<idx \div n, idx % n>>
         IN  (IF initialBoard[c] = Unassigned THEN arcsFrom(c) ELSE <<>>)
             \o initialArcs(idx + 1)

\* lines 181-186: the domain of x after the arc (x, y) is processed
revise(domains, x, y) == {xval \in domains[x] : domains[y] \ {xval} # {}}

\* computeReducedDomains up to the worklist loop
StartReduce ==
    /\ pc = "computeReducedDomains"
    /\ reducedDomains' = initialDomains
    /\ arcs' = initialArcs(0)
    /\ pc' = "arcs"
    /\ UNCHANGED <<n, m, k, initialBoard, board, checks, altDomains, altArcs, stack,
                   driver, results, iter, outcome, prev, result>>

\* one turn of "while len(arcs) != 0"
PopArc ==
    /\ pc = "arcs"
    /\ arcs # <<>>
    /\ LET x == Head(arcs)[1]
           y == Head(arcs)[2]
           xdomain == revise(reducedDomains, x, y)
           removed == xdomain # reducedDomains[x]
       IN  /\ reducedDomains' = [reducedDomains EXCEPT ![x] = xdomain]
           /\ arcs' = IF removed THEN Tail(arcs) \o arcsFrom(x) ELSE Tail(arcs)
    /\ UNCHANGED <<n, m, k, initialBoard, board, checks, altDomains, altArcs, stack,
                   driver, results, iter, outcome, prev, pc, result>>

\* the worklist is empty: computeReducedDomains returns
ReduceDone ==
    /\ pc = "arcs"
    /\ arcs = <<>>
    /\ pc' = IF driver = 0 THEN "reduced" ELSE "search"
    /\ UNCHANGED <<n, m, k, initialBoard, board, checks, reducedDomains, arcs,
                   altDomains, altArcs, stack, driver, results, iter, outcome, prev,
                   result>>

\* A second run of the same algorithm over the same puzzle that takes the arcs
\* from its worklist in any order. Its worklist is a bag: arc |-> how many
\* times the arc is in the list.
bagOf(list) ==
    [a \in {list[t] : t \in DOMAIN list} |-> Cardinality({t \in DOMAIN list : list[t] = a})]

bagCount(bag, a) == IF a \in DOMAIN bag THEN bag[a] ELSE 0

bagPlus(bag, list) ==
    [a \in DOMAIN bag \cup {list[t] : t \in DOMAIN list} |->
        bagCount(bag, a) + Cardinality({t \in DOMAIN list : list[t] = a})]

bagMinus(bag, a) ==
    [b \in {b \in DOMAIN bag : b # a \/ bag[b] > 1} |->
        IF b = a THEN bag[b] - 1 ELSE bag[b]]

AltStartReduce ==
    /\ pc = "reduced"
    /\ altDomains' = initialDomains
    /\ altArcs' = bagOf(initialArcs(0))
    /\ pc' = "altArcs"
    /\ UNCHANGED <<n, m, k, initialBoard, board, checks, reducedDomains, arcs, stack,
                   driver, results, iter, outcome, prev, result>>

AltPopArc ==
    /\ pc = "altArcs"
    /\ \E a \in DOMAIN altArcs :
         LET x == a[1]
             y == a[2]
             xdomain == revise(altDomains, x, y)
             removed == xdomain # altDomains[x]
             rest == bagMinus(altArcs, a)
         IN  /\ altDomains' = [altDomains EXCEPT ![x] = xdomain]
             /\ altArcs' = IF removed THEN bagPlus(rest, arcsFrom(x)) ELSE rest
    /\ UNCHANGED <<n, m, k, initialBoard, board, checks, reducedDomains, arcs, stack,
                   driver, results, iter, outcome, prev, pc, result>>

AltReduceDone ==
    /\ pc = "altArcs"
    /\ DOMAIN altArcs = {}
    /\ pc' = "altReduced"
    /\ UNCHANGED <<n, m, k, initialBoard, board, checks, reducedDomains, arcs,
                   altDomains, altArcs, stack, driver, results, iter, outcome, prev,
                   result>>

\* a 3x3 Latin square, and one with a given repeated in a row
LatinGrids ==
    { BoardOf(<< <<1,2,3>>, <<2,3,1>>, <<3,1,2>> >>),
      BoardOf(<< <<1,1,3>>, <<2,3,1>>, <<3,1,2>> >>) }

\* the puzzles given to computeReducedDomains: every 2x2 puzzle, and 3x3 grids
\* with some cells left open
ReducePuzzles(nn) ==
    IF nn = 2 THEN [CellsOf(2) -> {Unassigned} \cup (1..2)]
    ELSE UNION {Blanked(b, MaxOpenReduce) : b \in LatinGrids}

InitReduce ==
    /\ \E p \in {<<2, 1, 2>>, <<3, 1, 3>>} : n = p[1] /\ m = p[2] /\ k = p[3]
    /\ initialBoard \in ReducePuzzles(n)
    /\ board = initialBoard
    /\ checks = 0
    /\ pc = "computeReducedDomains"
    /\ result = "none"
    /\ IdleDomains /\ IdleSearch /\ IdleRepair

NextReduce ==
    StartReduce \/ PopArc \/ ReduceDone \/ AltStartReduce \/ AltPopArc \/ AltReduceDone

SpecReduce == InitReduce /\ [][NextReduce]_vars

\* no value of an open cell's domain is left without a different value in the
\* domain of each neighbour
ArcConsistent(domains) ==
    \A x \in Cells : initialBoard[x] = Unassigned =>
        \A v \in domains[x] : \A y \in getNeighbours(x[1], x[2]) : domains[y] \ {v} # {}

\* C5 as stated: when computeReducedDomains ends, the reduced domains are arc
\* consistent.
C5_AsStated == pc = "reduced" => ArcConsistent(reducedDomains)

\* C6 as stated: two runs of the worklist algorithm over one puzzle that take
\* the arcs in different orders end with the same reduced domains.
C6_AsStated == pc = "altReduced" => altDomains = reducedDomains

(***************************************************************************)
(* The search drivers: backtracking (1), backtrackingMRV (2),              *)
(* backtrackingMRVfwd (3) and backtrackingMRVcp (4), run one after another *)
(* on the same puzzle. A frame of the recursion holds the cell chosen and  *)
(* the values its for loop has still to try.                               *)
(***************************************************************************)
Drivers == 1..4

\* the result a failed search returns: (False, [[]])
EmptyResult == << <<>> >>

\* the cell the driver's recursive function picks
openCell(d, b) == IF d = 1 THEN getFirstOpenCell(b) ELSE getOpenCellMRV(b)

\* the values its for loop runs over
valueList(d, b, c) == IF d = 1 THEN domainList ELSE getLCVList(b, c[1], c[2])

\* the test that guards the recursive call, on the board with the value placed
admissible(d, b, c) ==
    IF d = 3 THEN check(b, c[1], c[2]) /\ checkNeighboursConsistent(b, c[1], c[2])
    ELSE check(b, c[1], c[2])

\* the entry point: parseInput, a new SudokuCSP, for driver 4 computeReducedDomains
StartDriver ==
    /\ pc = "start"
    /\ driver < 4
    /\ driver' = driver + 1
    /\ board' = initialBoard
    /\ checks' = 0
    /\ reducedDomains' = <<>>
    /\ arcs' = <<>>
    /\ stack' = <<>>
    /\ pc' = IF driver + 1 = 4 THEN "computeReducedDomains" ELSE "search"
    /\ UNCHANGED <<n, m, k, initialBoard, altDomains, altArcs, results, iter, outcome,
                   prev, result>>

\* a call of the recursive function: no open cell, and (True, board) goes back
\* through every caller to the entry point; otherwise its for loop starts
CallRecursive ==
    /\ pc = "search"
    /\ LET c == openCell(driver, board)
       IN  IF c = NoCell
           THEN /\ results' = Append(results, [ok |-> TRUE, board |-> board,
                                               checks |-> checks])
                /\ stack' = <<>>
                /\ pc' = "start"
           ELSE /\ stack' = Append(stack, [cell |-> c,
                                           values |-> valueList(driver, board, c)])
                /\ pc' = "loop"
                /\ UNCHANGED results
    /\ UNCHANGED <<n, m, k, initialBoard, board, checks, reducedDomains, arcs,
                   altDomains, altArcs, driver, iter, outcome, prev, result>>

\* one turn of the for loop: place the value, check it, recurse or take it back
TryValue ==
    /\ pc = "loop"
    /\ stack[Len(stack)].values # <<>>
    /\ LET top == stack[Len(stack)]
           placed == [board EXCEPT ![top.cell] = Head(top.values)]
       IN  /\ stack' = [stack EXCEPT ![Len(stack)].values = Tail(top.values)]
           /\ checks' = checks + checkIncrement(TRUE)
           /\ IF admissible(driver, placed, top.cell)
              THEN board' = placed /\ pc' = "search"
              ELSE board' = [board EXCEPT ![top.cell] = Unassigned] /\ pc' = "loop"
    /\ UNCHANGED <<n, m, k, initialBoard, reducedDomains, arcs, altDomains, altArcs,
                   driver, results, iter, outcome, prev, result>>

\* the for loop is over: (False, [[]]) goes back to the caller, which takes its
\* own value back, or to the entry point
ReturnFalse ==
    /\ pc = "loop"
    /\ stack[Len(stack)].values = <<>>
    /\ stack' = SubSeq(stack, 1, Len(stack) - 1)
    /\ IF Len(stack) = 1
       THEN /\ results' = Append(results, [ok |-> FALSE, board |-> EmptyResult,
                                           checks |-> checks])
            /\ pc' = "start"
            /\ UNCHANGED board
       ELSE /\ board' = [board EXCEPT ![stack[Len(stack) - 1].cell] = Unassigned]
            /\ pc' = "loop"
            /\ UNCHANGED results
    /\ UNCHANGED <<n, m, k, initialBoard, checks, reducedDomains, arcs, altDomains,
                   altArcs, driver, iter, outcome, prev, result>>

\* the four drivers have returned
AllReturned ==
    /\ pc = "start"
    /\ driver = 4
    /\ pc' = "compared"
    /\ UNCHANGED <<n, m, k, initialBoard, board, checks, reducedDomains, arcs,
                   altDomains, altArcs, stack, driver, results, iter, outcome, prev,
                   result>>

\* the example puzzle of the specification, and the empty 4x4 grid
ExamplePuzzle ==
    BoardOf(<< <<1,-1,-1,4>>, <<-1,-1,1,-1>>, <<-1,1,-1,-1>>, <<4,-1,-1,1>> >>)

EmptyPuzzle == [c \in CellsOf(4) |-> Unassigned]

\* the puzzles given to the drivers
SearchPuzzles(nn) ==
    IF nn = 2 THEN [CellsOf(2) -> {Unassigned} \cup (1..2)]
    ELSE IF nn = 3 THEN UNION {Blanked(b, MaxOpenSearch) : b \in LatinGrids}
    ELSE UNION {Blanked(b, MaxOpenSearch) : b \in BaseGrids}
         \cup UNION {Blanked(b, 1) : b \in Perturbed(SolvedGrid, 1)}
         \cup {ExamplePuzzle, EmptyPuzzle}

InitSearch ==
    /\ \E p \in {<<2, 1, 2>>, <<2, 2, 2>>, <<3, 1, 3>>, <<4, 2, 2>>} :
           n = p[1] /\ m = p[2] /\ k = p[3]
    /\ initialBoard \in SearchPuzzles(n)
    /\ board = initialBoard
    /\ checks = 0
    /\ pc = "start"
    /\ result = "none"
    /\ IdleDomains /\ IdleSearch /\ IdleRepair

NextSearch ==
    \/ StartDriver \/ StartReduce \/ PopArc \/ ReduceDone
    \/ CallRecursive \/ TryValue \/ ReturnFalse \/ AllReturned

SpecSearch == InitSearch /\ [][NextSearch]_vars

\* no two neighbouring cells of b hold the same value
ValidGrid(b) == \A c \in Cells : \A d \in getNeighbours(c[1], c[2]) : b[c] # b[d]

\* the full valid grids that extend b
RECURSIVE Completions(_)
Completions(b) ==
    IF OpenCells(b) = {} THEN (IF ValidGrid(b) THEN {b} ELSE {})
    ELSE LET c == CHOOSE c \in OpenCells(b) : TRUE
             free == (1..n) \ {b[d] : d \in getNeighbours(c[1], c[2])}
         IN  UNION {Completions([b EXCEPT ![c] = v]) : v \in free}

\* what driver d returned is a success with a full board that passes checkAll and
\* keeps the givens
SolvedBy(d) ==
    /\ results[d].ok
    /\ DOMAIN results[d].board = Cells
    /\ \A c \in Cells : results[d].board[c] \in 1..n
    /\ checkAll(results[d].board)
    /\ \A c \in Cells : initialBoard[c] # Unassigned => results[d].board[c] = initialBoard[c]

\* C1: on every puzzle the four drivers report the same outcome, and on a
\* satisfiable puzzle each reports success with a full board that passes
\* checkAll and keeps the givens.
C1_DriversAgree ==
    pc = "compared" =>
        /\ \A d, e \in Drivers : results[d].ok = results[e].ok
        /\ Completions(initialBoard) # {} => \A d \in Drivers : SolvedBy(d)

\* the four drivers have solved a puzzle, two of them differently
C1_Witness ==
    /\ pc = "compared"
    /\ \A d \in Drivers : SolvedBy(d)
    /\ \E d, e \in Drivers : results[d].board # results[e].board

\* C3 as stated: a driver launched on a board whose givens contradict each other
\* (isSatisfiable returns false) reports failure.
C3_AsStated ==
    \A d \in DOMAIN results : ~isSatisfiable(initialBoard) => ~results[d].ok

\* C2 as stated: the example puzzle has exactly one valid completion, and
\* backtracking and backtrackingMRV both return it.
C2_AsStated ==
    (pc = "compared" /\ initialBoard = ExamplePuzzle) =>
        /\ Cardinality(Completions(initialBoard)) = 1
        /\ results[1].ok /\ results[2].ok
        /\ results[1].board = results[2].board
        /\ results[1].board \in Completions(initialBoard)

\* the two valid completions of the example puzzle
ExampleCompletions ==
    { BoardOf(<< <<1,2,3,4>>, <<3,4,1,2>>, <<2,1,4,3>>, <<4,3,2,1>> >>),
      BoardOf(<< <<1,3,2,4>>, <<2,4,1,3>>, <<3,1,4,2>>, <<4,2,3,1>> >>) }

\* C2 (amended): the example puzzle has exactly two valid completions;
\* backtracking succeeds and returns the one with row 0 = 1,2,3,4, and
\* backtrackingMRV succeeds and returns the other, with row 0 = 1,3,2,4.
C2_ExampleSolvedTwoWays ==
    (pc = "compared" /\ initialBoard = ExamplePuzzle) =>
        /\ Completions(initialBoard) = ExampleCompletions
        /\ results[1].ok /\ results[2].ok
        /\ results[1].board = BoardOf(<< <<1,2,3,4>>, <<3,4,1,2>>, <<2,1,4,3>>, <<4,3,2,1>> >>)
        /\ results[2].board = BoardOf(<< <<1,3,2,4>>, <<2,4,1,3>>, <<3,1,4,2>>, <<4,2,3,1>> >>)

\* both drivers have returned a full board for the example puzzle
C2_Witness ==
    /\ pc = "compared" /\ initialBoard = ExamplePuzzle
    /\ results[1].ok /\ results[2].ok
    /\ \A c \in Cells : results[1].board[c] \in 1..n /\ results[2].board[c] \in 1..n

====
